---- MODULE Spec2Model ----
(***************************************************************************)
(* Model of lib/webp_decode.c: the two exported functions webp_decode_rgba *)
(* and webp_free, stepped statement by statement, called by up to two host *)
(* threads over one flat memory and one decoder heap.                      *)
(*                                                                         *)
(* The decoder library behind WebPGetInfo / WebPDecodeRGBA / WebPFree is   *)
(* not part of lib/webp_decode.c.  It is modelled from the design document *)
(* (container parser, pixel decoder, linear buffer ownership) over a small *)
(* container format: <<signature, size, width-1, height-1, pixel...>>.     *)
(***************************************************************************)
EXTENDS Integers, Sequences, FiniteSets, TLC

\* ---------------------------------------------------------------- bounds
MaxPixels == 2
MaxCalls == 2

\* ------------------------------------------------------- program constants
NULL == 0
NoRet == 0 - 1
Junk == 0 - 1

\* ---------------------------------------- container format (design document)
Magic == 7
HeaderLen == 4
Opaque == 255
PixMod == 2

Threads == {1, 2}
NThreads == Cardinality(Threads)
MaxLen == HeaderLen + MaxPixels

\* ------------------------------------------------------------ memory layout
RegionLen == MaxLen + 1
DataAddr(t) == (t - 1) * RegionLen + 1
SlotAddr(t, k) == NThreads * RegionLen + (t - 1) * 3 + k
MemSize == NThreads * RegionLen + NThreads * 3
Handles == {MemSize + k : k \in 1..MaxCalls}

Max(x, y) == IF x > y THEN x ELSE y

Load(m, p) == IF p \in DOMAIN m THEN m[p] ELSE 0
Store(m, p, v) == IF p \in DOMAIN m THEN [m EXCEPT ![p] = v] ELSE m
Bytes(m, p, n) == [i \in 1..n |-> Load(m, p + i - 1)]
WriteBytes(m, p, b) ==
  [x \in DOMAIN m |->
     IF x >= p /\ x < p + RegionLen
     THEN (IF x - p + 1 <= Len(b) THEN b[x - p + 1] ELSE 0)
     ELSE m[x]]

\* ------------------------------------------- decoder library (design document)
Images == {d \in [w : 1..MaxPixels, h : 1..MaxPixels] : d.w * d.h <= MaxPixels}
PixelsOf(img) == [i \in 1..(img.w * img.h) |-> (img.w + i) % PixMod]
Encode(img) ==
  <<Magic, 2 + img.w * img.h, img.w - 1, img.h - 1>> \o PixelsOf(img)

ParseHeader(b) ==
  IF Len(b) = 0 THEN [err |-> "FormatError", w |-> 0, h |-> 0]
  ELSE IF b[1] # Magic THEN [err |-> "FormatError", w |-> 0, h |-> 0]
  ELSE IF Len(b) < HeaderLen THEN [err |-> "TruncatedError", w |-> 0, h |-> 0]
  ELSE IF b[2] > Len(b) - 2 THEN [err |-> "TruncatedError", w |-> 0, h |-> 0]
  ELSE IF b[3] + 1 = 0 \/ b[4] + 1 = 0
       THEN [err |-> "DimensionError", w |-> 0, h |-> 0]
  ELSE [err |-> "none", w |-> b[3] + 1, h |-> b[4] + 1]

ToRGBA(px) ==
  [i \in 1..(4 * Len(px)) |->
     IF i % 4 = 0 THEN Opaque ELSE px[(i + 3) \div 4]]

WebPGetInfo(b) ==
  LET r == ParseHeader(b)
  IN  [ok |-> r.err = "none", err |-> r.err, w |-> r.w, h |-> r.h]

WebPDecodeRGBA(b) ==
  LET r == ParseHeader(b)
  IN  IF r.err # "none"
      THEN [ok |-> FALSE, err |-> r.err, hdr |-> FALSE,
            w |-> 0, h |-> 0, rgba |-> <<>>]
      ELSE IF b[2] - 2 < r.w * r.h
      THEN [ok |-> FALSE, err |-> "BitstreamError", hdr |-> TRUE,
            w |-> r.w, h |-> r.h, rgba |-> <<>>]
      ELSE [ok |-> TRUE, err |-> "none", hdr |-> TRUE, w |-> r.w, h |-> r.h,
            rgba |-> ToRGBA(SubSeq(b, HeaderLen + 1, HeaderLen + r.w * r.h))]

WebPFree(lv, p) == lv \ {p}

\* ------------------------------------------------------- lib/webp_decode.c
\* the value returned at each return statement
RetCodeAlwaysZero(l) == 0
RetCodeAlwaysOne(l) == 1
RetCode(l) == IF l = "L20" THEN 1 ELSE 0

ArgsInvalid(a) ==
  \/ a.webp_data = NULL
  \/ a.data_size = 0
  \/ a.out_rgba = NULL
  \/ a.width = NULL
  \/ a.height = NULL

LibSizeOffByOne(a) == a.data_size + 1
LibSize(a) == a.data_size

InfoRejected(r, f) == ~r.ok \/ f.w <= 0 \/ f.h <= 0

RgbaCheckSkipped(f) == FALSE
RgbaCheckInverted(f) == f.rgba # NULL
RgbaMissing(f) == f.rgba = NULL

OutPtrIsInput(a) == a.webp_data
OutPtr(a) == a.out_rgba
OutRgbaVal(f) == f.rgba
WidthFromH(f) == f.h
WidthVal(f) == f.w
HeightFromRgba(f) == f.rgba
HeightVal(f) == f.h

\* w, h and rgba are automatic variables: one frame per call
FrameShared(t) == 1
FrameOf(t) == t

webp_free_noop(lv, p) == lv
webp_free(lv, p) == WebPFree(lv, p)

\* ------------------------------------------------------------------- state
VARIABLES cfg, mem, live, pixels, pc, args, frame, ret, pre, lib,
          owned, nDecoded, nFreed, nCalls

vars == <<cfg, mem, live, pixels, pc, args, frame, ret, pre, lib,
          owned, nDecoded, nFreed, nCalls>>

ZeroFrame == [w |-> 0, h |-> 0, rgba |-> NULL]
NoArgs == [webp_data |-> NULL, data_size |-> 0, out_rgba |-> NULL,
           width |-> NULL, height |-> NULL, bytes |-> <<>>]
NoLib == [info |-> 0, dec |-> 0, seen |-> 0, err |-> "none", buf |-> NULL]
NoPre == <<Junk, Junk, Junk>>

\* ----------------------------------------------------- inputs of the callers
Corrupt(b, i, v) == [b EXCEPT ![i] = v]
Encodings == {Encode(img) : img \in Images}
Corrupted ==
  {Corrupt(b, i, v) : b \in Encodings, i \in 1..HeaderLen, v \in {0, MaxLen}}

Buffers(c) == IF c.rich THEN Encodings \cup Corrupted ELSE Encodings
Sizes(c, b) ==
  IF ~c.rich THEN {Len(b) - 1, Len(b)}
  ELSE IF b \in Encodings THEN 0..Len(b)
  ELSE {Len(b)}
NullChoices(c) ==
  IF c.rich THEN {"none", "webp_data", "out_rgba", "width", "height"}
  ELSE {"none", "width"}

MakeArgs(t, b, n, z) ==
  [webp_data |-> IF z = "webp_data" THEN NULL ELSE DataAddr(t),
   data_size |-> n,
   out_rgba  |-> IF z = "out_rgba" THEN NULL ELSE SlotAddr(t, 1),
   width     |-> IF z = "width" THEN NULL ELSE SlotAddr(t, 2),
   height    |-> IF z = "height" THEN NULL ELSE SlotAddr(t, 3),
   bytes     |-> b]

InitCommon ==
  /\ mem = [x \in 1..MemSize |-> IF x > NThreads * RegionLen THEN Junk ELSE 0]
  /\ live = {}
  /\ pixels = [p \in Handles |-> <<>>]
  /\ pc = [t \in Threads |-> "idle"]
  /\ args = [t \in Threads |-> NoArgs]
  /\ frame = [t \in Threads |-> ZeroFrame]
  /\ ret = [t \in Threads |-> NoRet]
  /\ pre = [t \in Threads |-> NoPre]
  /\ lib = [t \in Threads |-> NoLib]
  /\ owned = {}
  /\ nDecoded = 0
  /\ nFreed = 0
  /\ nCalls = 0

Init == cfg = [threads |-> {1}, rich |-> TRUE] /\ InitCommon
InitConc == cfg = [threads |-> Threads, rich |-> FALSE] /\ InitCommon

\* ------------------------------------------------------------------ actions
InCall(t) == pc[t] \notin {"idle", "done"}

Return(t, v) ==
  /\ pc' = [pc EXCEPT ![t] = "done"]
  /\ ret' = [ret EXCEPT ![t] = v]

\* the host prepares the encoded bytes and calls webp_decode_rgba
Call(t) ==
  /\ t \in cfg.threads
  /\ pc[t] = "idle"
  /\ nCalls < MaxCalls
  /\ \E b \in Buffers(cfg) : \E n \in Sizes(cfg, b) : \E z \in NullChoices(cfg) :
       /\ z # "none" => (n = Len(b) /\ b \in Encodings)
       /\ args' = [args EXCEPT ![t] = MakeArgs(t, b, n, z)]
       /\ mem' = WriteBytes(mem, DataAddr(t), b)
  /\ pre' = [pre EXCEPT ![t] = <<mem[SlotAddr(t, 1)], mem[SlotAddr(t, 2)],
                                 mem[SlotAddr(t, 3)]>>]
  /\ pc' = [pc EXCEPT ![t] = "L12"]
  /\ ret' = [ret EXCEPT ![t] = NoRet]
  /\ lib' = [lib EXCEPT ![t] = NoLib]
  /\ nCalls' = nCalls + 1
  /\ UNCHANGED <<cfg, live, pixels, frame, owned, nDecoded, nFreed>>

\* line 12 (argument check) and line 13 (int w = 0, h = 0)
L12(t) ==
  /\ pc[t] = "L12"
  /\ IF ArgsInvalid(args[t])
     THEN Return(t, RetCode("L12")) /\ UNCHANGED frame
     ELSE /\ pc' = [pc EXCEPT ![t] = "L14"]
          /\ frame' = [frame EXCEPT ![FrameOf(t)].w = 0, ![FrameOf(t)].h = 0]
          /\ UNCHANGED ret
  /\ UNCHANGED <<cfg, mem, live, pixels, args, pre, lib,
                 owned, nDecoded, nFreed, nCalls>>

\* line 14: WebPGetInfo(webp_data, data_size, &w, &h) and the dimension check
L14(t) ==
  /\ pc[t] = "L14"
  /\ LET a == args[t]
         r == WebPGetInfo(Bytes(mem, a.webp_data, LibSize(a)))
         f == IF r.ok THEN [frame[FrameOf(t)] EXCEPT !.w = r.w, !.h = r.h]
              ELSE frame[FrameOf(t)]
     IN  /\ frame' = [frame EXCEPT ![FrameOf(t)] = f]
         /\ lib' = [lib EXCEPT ![t].info = @ + 1, ![t].err = r.err,
                               ![t].seen = Max(@, LibSize(a))]
         /\ IF InfoRejected(r, f)
            THEN Return(t, RetCode("L14"))
            ELSE pc' = [pc EXCEPT ![t] = "L15"] /\ UNCHANGED ret
  /\ UNCHANGED <<cfg, mem, live, pixels, args, pre,
                 owned, nDecoded, nFreed, nCalls>>

\* line 15: uint8_t* rgba = WebPDecodeRGBA(webp_data, data_size, &w, &h)
L15(t) ==
  /\ pc[t] = "L15"
  /\ LET a == args[t]
         d == WebPDecodeRGBA(Bytes(mem, a.webp_data, LibSize(a)))
         f == IF d.hdr THEN [frame[FrameOf(t)] EXCEPT !.w = d.w, !.h = d.h]
              ELSE frame[FrameOf(t)]
     IN  IF d.ok
         THEN \E p \in Handles \ live :
                /\ live' = live \cup {p}
                /\ pixels' = [pixels EXCEPT ![p] = d.rgba]
                /\ frame' = [frame EXCEPT ![FrameOf(t)] = [f EXCEPT !.rgba = p]]
                /\ lib' = [lib EXCEPT ![t].dec = @ + 1, ![t].err = d.err,
                                      ![t].seen = Max(@, LibSize(a)),
                                      ![t].buf = p]
         ELSE /\ frame' = [frame EXCEPT ![FrameOf(t)] = [f EXCEPT !.rgba = NULL]]
              /\ lib' = [lib EXCEPT ![t].dec = @ + 1, ![t].err = d.err,
                                    ![t].seen = Max(@, LibSize(a))]
              /\ UNCHANGED <<live, pixels>>
  /\ pc' = [pc EXCEPT ![t] = "L16"]
  /\ UNCHANGED <<cfg, mem, args, ret, pre, owned, nDecoded, nFreed, nCalls>>

\* line 16: if (!rgba) return 0
L16(t) ==
  /\ pc[t] = "L16"
  /\ IF RgbaMissing(frame[FrameOf(t)])
     THEN Return(t, RetCode("L16"))
     ELSE pc' = [pc EXCEPT ![t] = "L17"] /\ UNCHANGED ret
  /\ UNCHANGED <<cfg, mem, live, pixels, args, frame, pre, lib,
                 owned, nDecoded, nFreed, nCalls>>

\* line 17: *out_rgba = rgba
L17(t) ==
  /\ pc[t] = "L17"
  /\ mem' = Store(mem, OutPtr(args[t]), OutRgbaVal(frame[FrameOf(t)]))
  /\ pc' = [pc EXCEPT ![t] = "L18"]
  /\ UNCHANGED <<cfg, live, pixels, args, frame, ret, pre, lib,
                 owned, nDecoded, nFreed, nCalls>>

\* line 18: *width = w
L18(t) ==
  /\ pc[t] = "L18"
  /\ mem' = Store(mem, args[t].width, WidthVal(frame[FrameOf(t)]))
  /\ pc' = [pc EXCEPT ![t] = "L19"]
  /\ UNCHANGED <<cfg, live, pixels, args, frame, ret, pre, lib,
                 owned, nDecoded, nFreed, nCalls>>

\* line 19: *height = h
L19(t) ==
  /\ pc[t] = "L19"
  /\ mem' = Store(mem, args[t].height, HeightVal(frame[FrameOf(t)]))
  /\ pc' = [pc EXCEPT ![t] = "L20"]
  /\ UNCHANGED <<cfg, live, pixels, args, frame, ret, pre, lib,
                 owned, nDecoded, nFreed, nCalls>>

\* line 20: return 1
L20(t) ==
  /\ pc[t] = "L20"
  /\ Return(t, RetCode("L20"))
  /\ nDecoded' = nDecoded + 1
  /\ UNCHANGED <<cfg, mem, live, pixels, args, frame, pre, lib,
                 owned, nFreed, nCalls>>

\* the host reads the return value and, on success, takes the buffer; it
\* then drops its encoded input and its record of the call
Collect(t) ==
  /\ pc[t] = "done"
  /\ pc' = [pc EXCEPT ![t] = "idle"]
  /\ owned' = IF ret[t] # 0 /\ Load(mem, args[t].out_rgba) \in Handles
              THEN owned \cup {Load(mem, args[t].out_rgba)}
              ELSE owned
  /\ mem' = WriteBytes(mem, DataAddr(t), <<>>)
  /\ args' = [args EXCEPT ![t] = NoArgs]
  /\ ret' = [ret EXCEPT ![t] = NoRet]
  /\ pre' = [pre EXCEPT ![t] = NoPre]
  /\ lib' = [lib EXCEPT ![t] = NoLib]
  /\ frame' = [frame EXCEPT ![FrameOf(t)] = ZeroFrame]
  /\ UNCHANGED <<cfg, live, pixels, nDecoded, nFreed, nCalls>>

\* lines 23-24: the host releases a buffer it owns (or passes NULL)
Free(t) ==
  /\ t \in cfg.threads
  /\ pc[t] = "idle"
  /\ \E p \in owned \cup {NULL} :
       /\ live' = webp_free(live, p)
       /\ owned' = owned \ {p}
       /\ pixels' = IF p \in Handles THEN [pixels EXCEPT ![p] = <<>>] ELSE pixels
       /\ nFreed' = IF p = NULL THEN nFreed ELSE nFreed + 1
  /\ UNCHANGED <<cfg, mem, pc, args, frame, ret, pre, lib, nDecoded, nCalls>>

Next ==
  \E t \in Threads :
    \/ Call(t)
    \/ L12(t)
    \/ L14(t)
    \/ L15(t)
    \/ L16(t)
    \/ L17(t)
    \/ L18(t)
    \/ L19(t)
    \/ L20(t)
    \/ Collect(t)
    \/ Free(t)

Spec == Init /\ [][Next]_vars
SpecConc == InitConc /\ [][Next]_vars

\* ------------------------------------------------- observations of a call
Done(t) == pc[t] = "done"
SlotVals(t) ==
  <<mem[SlotAddr(t, 1)], mem[SlotAddr(t, 2)], mem[SlotAddr(t, 3)]>>
\* the bytes webp_data[0 .. data_size) the call was given
Passed(t) == SubSeq(args[t].bytes, 1, args[t].data_size)
PtrsOk(a) ==
  a.webp_data # NULL /\ a.out_rgba # NULL /\ a.width # NULL /\ a.height # NULL
\* a complete container: it decodes and is exactly as long as it declares
ValidEncoded(b) == WebPDecodeRGBA(b).ok /\ Len(b) = b[2] + 2
InFlight == {t \in Threads :
               /\ pc[t] \in {"L16", "L17", "L18", "L19", "L20"}
               /\ frame[FrameOf(t)].rgba # NULL}
Pending == {t \in Threads : Done(t) /\ ret[t] = 1}
HeldBy(t) ==
  IF Done(t) THEN Load(mem, args[t].out_rgba) ELSE frame[FrameOf(t)].rgba
\* what the call returns when nothing else runs
AloneRet(t) ==
  IF ArgsInvalid(args[t]) THEN 0
  ELSE LET g == WebPGetInfo(Passed(t))
       IN  IF ~g.ok \/ g.w <= 0 \/ g.h <= 0 THEN 0
           ELSE IF WebPDecodeRGBA(Passed(t)).ok THEN 1 ELSE 0

\* C1: whenever webp_decode_rgba has returned 0, for whatever reason, the
\* three output slots *out_rgba, *width and *height hold exactly what they
\* held when the call was made.
C1_FailureLeavesSlots ==
  \A t \in Threads : (Done(t) /\ ret[t] = 0) => SlotVals(t) = pre[t]

\* a decode that failed inside WebPDecodeRGBA while the slots still held the
\* result of an earlier successful decode
C1_Witness ==
  /\ Done(1) /\ ret[1] = 0
  /\ lib[1].dec = 1
  /\ pre[1][1] \in Handles /\ pre[1][2] > 0

\* C2: webp_decode_rgba returns only 0 or 1, and when it has returned 1 the
\* slots hold a non-null live buffer, a width > 0 and a height > 0, and the
\* buffer is width*height*4 bytes long.
C2_ReturnContract ==
  \A t \in Threads :
    Done(t) =>
      /\ ret[t] \in {0, 1}
      /\ ret[t] = 1 =>
           /\ mem[SlotAddr(t, 1)] # NULL
           /\ mem[SlotAddr(t, 1)] \in live
           /\ mem[SlotAddr(t, 2)] > 0
           /\ mem[SlotAddr(t, 3)] > 0
           /\ Len(pixels[mem[SlotAddr(t, 1)]])
                = mem[SlotAddr(t, 2)] * mem[SlotAddr(t, 3)] * 4

C2_Witness ==
  /\ Done(1) /\ ret[1] = 1
  /\ mem[SlotAddr(1, 2)] * mem[SlotAddr(1, 3)] > 1

\* C3: after a successful decode the width and height in the slots are the
\* dimensions declared in the container header of the bytes passed, which
\* are the values WebPGetInfo reports for those bytes.
C3_DimsMatchHeader ==
  \A t \in Threads :
    (Done(t) /\ ret[t] = 1) =>
      /\ mem[SlotAddr(t, 2)] = Passed(t)[3] + 1
      /\ mem[SlotAddr(t, 3)] = Passed(t)[4] + 1
      /\ mem[SlotAddr(t, 2)] = WebPGetInfo(Passed(t)).w
      /\ mem[SlotAddr(t, 3)] = WebPGetInfo(Passed(t)).h

C3_Witness ==
  /\ Done(1) /\ ret[1] = 1
  /\ mem[SlotAddr(1, 2)] # mem[SlotAddr(1, 3)]

\* C4: buffer ownership is linear: the live buffers are exactly those the
\* host owns plus those a call holds or has just returned, each held by one
\* holder only, and their number is successful decodes minus releases (plus
\* the buffers of calls that have not returned yet).
C4_LinearOwnership ==
  /\ live = owned \cup {HeldBy(t) : t \in InFlight \cup Pending}
  /\ \A t \in InFlight \cup Pending : HeldBy(t) \notin owned
  /\ \A t1, t2 \in InFlight \cup Pending : t1 # t2 => HeldBy(t1) # HeldBy(t2)
  /\ Cardinality(live) = nDecoded - nFreed + Cardinality(InFlight)

\* two successful decodes, one buffer released, the other still live
C4_Witness ==
  /\ nDecoded = 2 /\ nFreed = 1
  /\ Cardinality(live) = 1

\* C5: a call with data_size = 0 has failed when it returns, and exposes no
\* dimensions (no 0x0 result) and no buffer.
C5_ZeroLengthFails ==
  \A t \in Threads :
    (Done(t) /\ args[t].data_size = 0) => (ret[t] = 0 /\ SlotVals(t) = pre[t])

C5_Witness ==
  /\ Done(1) /\ args[1].data_size = 0
  /\ PtrsOk(args[1]) /\ ValidEncoded(args[1].bytes)

\* C6: a call given a proper prefix of a valid encoded buffer fails, the
\* decoder reporting TruncatedError or BitstreamError when it is consulted,
\* and the decoder is never given more than the first data_size bytes.
C6_TruncationFails ==
  \A t \in Threads :
    (/\ Done(t)
     /\ ValidEncoded(args[t].bytes)
     /\ args[t].data_size < Len(args[t].bytes)) =>
      /\ ret[t] = 0
      /\ lib[t].seen <= args[t].data_size
      /\ lib[t].info > 0 => lib[t].err \in {"TruncatedError", "BitstreamError"}

\* the last byte of a valid buffer cut off, rejected by the decoder
C6_Witness ==
  /\ Done(1)
  /\ ValidEncoded(args[1].bytes)
  /\ args[1].data_size = Len(args[1].bytes) - 1
  /\ lib[1].info = 1 /\ lib[1].err = "TruncatedError"

C8_NonInterference ==
  \A t \in Threads :
    Done(t) =>
      /\ ret[t] = AloneRet(t)
      /\ IF AloneRet(t) = 1
         THEN /\ mem[SlotAddr(t, 1)] \in live
              /\ mem[SlotAddr(t, 2)] = WebPDecodeRGBA(Passed(t)).w
              /\ mem[SlotAddr(t, 3)] = WebPDecodeRGBA(Passed(t)).h
              /\ pixels[mem[SlotAddr(t, 1)]] = WebPDecodeRGBA(Passed(t)).rgba
         ELSE SlotVals(t) = pre[t]

\* one call has returned its image while the other call, decoding another
\* image, is between its stores
C8_Witness ==
  /\ Done(1) /\ ret[1] = 1
  /\ pc[2] = "L18"
  /\ Passed(1) # Passed(2)
  /\ frame[2].w # mem[SlotAddr(1, 2)]

\* C9: from the call to its return, with success or failure, the encoded
\* bytes of the host are the bytes the host passed.
C9_InputUnchanged ==
  \A t \in Threads :
    (pc[t] # "idle" /\ args[t].webp_data # NULL) =>
      Bytes(mem, args[t].webp_data, Len(args[t].bytes)) = args[t].bytes

C9_Witness ==
  /\ Done(1) /\ ret[1] = 1
  /\ Bytes(mem, DataAddr(1), Len(args[1].bytes)) = args[1].bytes
  /\ Len(args[1].bytes) = MaxLen

\* C10: a failed call leaks nothing: the decoder is not called when an
\* argument is null or data_size is 0, WebPDecodeRGBA is called at most once
\* and only after WebPGetInfo accepted the bytes with positive dimensions,
\* a buffer it returned is in *out_rgba with return value 1, and when no
\* call is open the live buffers are exactly the ones the host owns.
C10_NoLeak ==
  /\ \A t \in Threads :
       /\ lib[t].info <= 1 /\ lib[t].dec <= 1
       /\ (pc[t] # "idle" /\ ArgsInvalid(args[t])) =>
            (lib[t].info = 0 /\ lib[t].dec = 0)
       /\ lib[t].dec = 1 =>
            /\ lib[t].info = 1
            /\ WebPGetInfo(Passed(t)).ok
            /\ WebPGetInfo(Passed(t)).w > 0
            /\ WebPGetInfo(Passed(t)).h > 0
       /\ (Done(t) /\ lib[t].buf # NULL) =>
            (ret[t] = 1 /\ mem[SlotAddr(t, 1)] = lib[t].buf)
  /\ (\A t \in Threads : pc[t] = "idle") => live = owned

\* every call has returned, one failed and one succeeded, and the buffer of
\* the successful one is the only live buffer
C10_Witness ==
  /\ \A t \in Threads : pc[t] = "idle"
  /\ nCalls = 2 /\ nDecoded = 1 /\ nFreed = 0
  /\ live = owned /\ Cardinality(live) = 1
====
